---- MODULE Spec2Model ----
(***************************************************************************)
(* Model of the Ships CLI (titanic.py): the command loop, search_ship with *)
(* its median helper, and top_countries.                                   *)
(*                                                                         *)
(* Python strings are sequences of one-character strings.  A Python value  *)
(* returned or raised by a handler is a record [kind, text]: kind "str"    *)
(* for a returned string, "None" for a call that falls off the end of the  *)
(* function, and the exception class name for a raised exception.          *)
(***************************************************************************)
EXTENDS Integers, Sequences, FiniteSets

(* ----------------------------- strings --------------------------------- *)

UpperChars == <<"A","B","C","D","E","I","M","N","R","S","Y">>
LowerChars == <<"a","b","c","d","e","i","m","n","r","s","y">>

\* str.lower() on one character
LowerChar(c) ==
    IF \E i \in 1..Len(UpperChars) : UpperChars[i] = c
    THEN LowerChars[CHOOSE i \in 1..Len(UpperChars) : UpperChars[i] = c]
    ELSE c

\* str.lower()
Lower(s) == [i \in 1..Len(s) |-> LowerChar(s[i])]

RECURSIVE Join(_, _)
\* sep.join(parts)
Join(parts, sep) ==
    IF Len(parts) = 0 THEN <<>>
    ELSE IF Len(parts) = 1 THEN parts[1]
    ELSE parts[1] \o sep \o Join(Tail(parts), sep)

RECURSIVE Digits(_)
\* str(n) for an int n >= 0
Digits(n) ==
    LET d == <<"0","1","2","3","4","5","6","7","8","9">>
    IN  IF n < 10 THEN <<d[n + 1]>> ELSE Digits(n \div 10) \o <<d[(n % 10) + 1]>>

\* 'x' * n
Repeat(c, n) == [i \in 1..n |-> c]

(* ------------------------- fuzz.ratio ---------------------------------- *)

\* the largest element of a non-empty set of integers
MaxOf(S) == CHOOSE m \in S : \A x \in S : x <= m

\* one row of the indel-distance table: the result at j+1 is the length of the
\* longest common subsequence of a[1..i] and b[1..j], prev is the row of
\* a[1..i-1]; a row is non-decreasing, so the running maximum
\* max(prev[j], cur[j-1]) is the maximum of the candidates up to j
LcsRow(ai, b, prev) ==
    LET cand == SubSeq([j \in 1..Len(b) |->
                          IF ai = b[j] THEN prev[j] + 1 ELSE prev[j + 1]],
                       1, Len(b))
    IN  SubSeq([j1 \in 1..(Len(b) + 1) |->
                  MaxOf({0} \cup {cand[j] : j \in 1..(j1 - 1)})],
               1, Len(b) + 1)

RECURSIVE LcsRows(_, _, _, _, _)
\* the rows lo..hi of the table applied in order to prev (split in halves to
\* keep the evaluation shallow)
LcsRows(a, b, lo, hi, prev) ==
    IF lo > hi THEN prev
    ELSE IF lo = hi THEN LcsRow(a[lo], b, prev)
    ELSE LET mid  == (lo + hi) \div 2
             left == LcsRows(a, b, lo, mid, prev)
         IN  IF Len(left) > 0 THEN LcsRows(a, b, mid + 1, hi, left) ELSE left

\* Levenshtein.ratio: (lensum - indel distance) / lensum = 2 * LCS / lensum;
\* this is the number of matched characters M of 2*M/T
LevMatches(a, b) ==
    LcsRows(a, b, 1, Len(a),
            SubSeq([j \in 1..(Len(b) + 1) |-> 0], 1, Len(b) + 1))[Len(b) + 1]

\* difflib autojunk: when b has 200 or more elements, an element occurring
\* more than len(b) // 100 + 1 times is "popular" and never matched
Popular(b, c) ==
    /\ Len(b) >= 200
    /\ Cardinality({j \in 1..Len(b) : b[j] = c}) > (Len(b) \div 100) + 1

\* difflib.SequenceMatcher.find_longest_match, one row i of a: row[t] is the
\* length of the common block ending at (i, blo + t - 1); best is <<size, start in a,
\* start in b>>, longest first, then earliest in a, then earliest in b
RunRow(a, b, blo, bhi, i, st) ==
    LET n   == bhi - blo + 1
        row == SubSeq([t \in 1..n |->
                         IF a[i] = b[blo + t - 1] /\ ~Popular(b, b[blo + t - 1])
                         THEN (IF t > 1 THEN st.prev[t - 1] ELSE 0) + 1
                         ELSE 0],
                      1, n)
        k   == MaxOf({row[t] : t \in 1..n})
        tb  == CHOOSE t \in 1..n :
                   row[t] = k /\ \A t2 \in 1..(t - 1) : row[t2] < k
    IN  [prev |-> row,
         best |-> IF k > st.best[1] THEN <<k, i - k + 1, blo + tb - k>>
                  ELSE st.best]

RECURSIVE RunRows(_, _, _, _, _, _, _)
\* the rows lo..hi applied in order (split in halves, as LcsRows)
RunRows(a, b, blo, bhi, lo, hi, st) ==
    IF lo > hi THEN st
    ELSE IF lo = hi THEN RunRow(a, b, blo, bhi, lo, st)
    ELSE LET mid  == (lo + hi) \div 2
             left == RunRows(a, b, blo, bhi, lo, mid, st)
         IN  IF Len(left.prev) > 0 /\ left.best[1] >= 0
             THEN RunRows(a, b, blo, bhi, mid + 1, hi, left)
             ELSE left

FindLongestMatch(a, b, alo, ahi, blo, bhi) ==
    IF alo > ahi \/ blo > bhi THEN <<0, alo, blo>>
    ELSE RunRows(a, b, blo, bhi, alo, ahi,
                 [prev |-> SubSeq([t \in 1..(bhi - blo + 1) |-> 0],
                                  1, bhi - blo + 1),
                  best |-> <<0, alo, blo>>]).best

RECURSIVE BlockMatches(_, _, _, _, _, _)
\* difflib.SequenceMatcher.get_matching_blocks: the longest block, then the
\* pieces to its left and to its right; the sum of the block sizes
BlockMatches(a, b, alo, ahi, blo, bhi) ==
    LET m == FindLongestMatch(a, b, alo, ahi, blo, bhi)
    IN  IF m[1] = 0 THEN 0
        ELSE m[1]
             + BlockMatches(a, b, alo, m[2] - 1, blo, m[3] - 1)
             + BlockMatches(a, b, m[2] + m[1], ahi, m[3] + m[1], bhi)

DiffMatches(a, b) == BlockMatches(a, b, 1, Len(a), 1, Len(b))

\* utils.intr(100 * 2.0 * M / T): int(round(x)), round half to even
RoundRatio(M, T) ==
    LET q == (200 * M) \div T
        r == (200 * M) % T
    IN  IF 2 * r > T THEN q + 1
        ELSE IF 2 * r < T THEN q
        ELSE IF q % 2 = 0 THEN q ELSE q + 1

\* fuzz.ratio(s1, s2) of fuzzywuzzy: 100 for equal strings, 0 when either is
\* empty, else 100 * 2*M/T rounded; M comes from python-Levenshtein when it is
\* installed and from difflib otherwise
ratio(m, s1, s2) ==
    IF s1 = s2 THEN 100
    ELSE IF Len(s1) = 0 \/ Len(s2) = 0 THEN 0
    ELSE RoundRatio(IF m = "Levenshtein" THEN LevMatches(s1, s2)
                    ELSE DiffMatches(s1, s2),
                    Len(s1) + Len(s2))

(* ------------------------- Python values ------------------------------- *)

\* a value returned by a handler (kind "str" or "None") or the exception it
\* raised (kind is the exception class)
Returned(text) == [kind |-> "str", text |-> text]
ReturnedNone   == [kind |-> "None", text |-> <<>>]
Raised(exc)    == [kind |-> exc, text |-> <<>>]

\* a field value of a ship record: a string or a non-negative int
StrVal(s) == [isnum |-> FALSE, s |-> s, n |-> 0]
NumVal(n) == [isnum |-> TRUE, s |-> <<>>, n |-> n]

\* f"{value}"
Format(v) == IF v.isnum THEN Digits(v.n) ELSE v.s

\* seq[:n]
SliceTo(seq, n) ==
    IF n >= 0 THEN SubSeq(seq, 1, IF n < Len(seq) THEN n ELSE Len(seq))
    ELSE SubSeq(seq, 1, Len(seq) + n)

SHIPNAME == <<"S","H","I","P","N","A","M","E">>
COUNTRY  == <<"C","O","U","N","T","R","Y">>
SPEED    == <<"S","P","E","E","D">>

\* ship.get(key) of a record that has the key; a record is the sequence of
\* its <<key, value>> items in field order
Get(ship, key) == ship[CHOOSE i \in 1..Len(ship) : ship[i][1] = key][2]

(* --------------------------- dictionaries ------------------------------ *)

\* d[k] = v on a dict kept as the sequence of its <<key, value>> items in
\* insertion order: a key that is already present keeps its position
DictSet(d, k, v) ==
    IF \E i \in 1..Len(d) : d[i][1] = k
    THEN [d EXCEPT ![CHOOSE i \in 1..Len(d) : d[i][1] = k] = <<k, v>>]
    ELSE Append(d, <<k, v>>)

\* list(d.values())
Values(d) == [i \in 1..Len(d) |-> d[i][2]]

(* ----------------------------- sorting --------------------------------- *)

RECURSIVE InsertAsc(_, _)
InsertAsc(sorted, x) ==
    IF Len(sorted) = 0 THEN <<x>>
    ELSE IF x < sorted[1] THEN <<x>> \o sorted
    ELSE <<sorted[1]>> \o InsertAsc(Tail(sorted), x)

RECURSIVE SortAsc(_)
\* list.sort() of a list of ints
SortAsc(xs) ==
    IF Len(xs) = 0 THEN <<>>
    ELSE InsertAsc(SortAsc(SubSeq(xs, 1, Len(xs) - 1)), xs[Len(xs)])

RECURSIVE InsertDesc(_, _)
\* x goes behind every item whose count or score is at least its own
InsertDesc(sorted, x) ==
    IF Len(sorted) = 0 THEN <<x>>
    ELSE IF x[2] > sorted[1][2] THEN <<x>> \o sorted
    ELSE <<sorted[1]>> \o InsertDesc(Tail(sorted), x)

RECURSIVE SortDesc(_)
\* sorted(d.items(), key=lambda item: item[1], reverse=True): stable, items
\* of equal value keep their order
SortDesc(items) ==
    IF Len(items) = 0 THEN <<>>
    ELSE InsertDesc(SortDesc(SubSeq(items, 1, Len(items) - 1)), items[Len(items)])

(* ----------------------- get_median_ships_scores ----------------------- *)

\* a Python number num/den: an int (den = 1) or the float (a + b) / 2
Number(num, den) == [kind |-> "number", num |-> num, den |-> den]

\* get_median_ships_scores without the sort of line 77
get_median_unsorted(scores) ==
    LET scores_list == Values(scores)
        length      == Len(scores_list)
    IN  IF length % 2 = 0
        THEN IF length = 0
             THEN [kind |-> "IndexError", num |-> 0, den |-> 1]
             ELSE Number(scores_list[length \div 2] + scores_list[length \div 2 + 1], 2)
        ELSE Number(scores_list[length \div 2 + 1], 1)

\* lines 72-83; on an empty list line 81 raises IndexError
get_median_ships_scores(scores) ==
    LET scores_list == SortAsc(Values(scores))
        length      == Len(scores_list)
    IN  IF length % 2 = 0
        THEN IF length = 0
             THEN [kind |-> "IndexError", num |-> 0, den |-> 1]
             ELSE Number(scores_list[length \div 2] + scores_list[length \div 2 + 1], 2)
        ELSE Number(scores_list[length \div 2 + 1], 1)

(* ----------------------------- search_ship ----------------------------- *)

\* the slice bound of line 118
TopN == 5

NotFoundNotice(name) == <<"'">> \o name \o <<"'"," ","s","h","i","p"," ","n","o","t"," ","f","o","u","n","d",".">>

DidYouMeanNotice(name) ==
    <<"S","h","i","p"," ","'">> \o name \o <<"'"," ","n","o","t"," ","f","o","u","n","d",","," ","d","o"," ","y","o","u"," ","m","e","a","n",":">>

RECURSIVE BuildScores(_, _, _, _)
\* the loop of lines 97-99 over the records that are left
BuildScores(m, ships, name, scores) ==
    IF Len(ships) = 0 THEN scores
    ELSE LET ship_name == Get(ships[1], SHIPNAME).s
         IN  BuildScores(m, Tail(ships), name,
                         DictSet(scores, ship_name,
                                 ratio(m, Lower(name), Lower(ship_name))))

\* RecommendedNames with >= in place of > on line 114
RecommendedNamesNonStrict(scores, median_score) ==
    SelectSeq(scores, LAMBDA item : item[2] * median_score.den >= median_score.num * 2)

\* RecommendedNames without the doubling of the median on line 114
RecommendedNamesNoDouble(scores, median_score) ==
    SelectSeq(scores, LAMBDA item : item[2] * median_score.den > median_score.num)

\* lines 112-115
RecommendedNames(scores, median_score) ==
    SelectSeq(scores, LAMBDA item : item[2] * median_score.den > median_score.num * 2)

\* the else branch, lines 109-123
Recommend(scores, name) ==
    LET median_score == get_median_ships_scores(scores)
    IN  IF median_score.kind # "number"
        THEN [ret |-> Raised(median_score.kind), printed |-> <<>>]
        ELSE
          LET recommended_names_desc ==
                  SliceTo(SortDesc(RecommendedNames(scores, median_score)), TopN)
          IN  [ret |-> Returned(Join([i \in 1..Len(recommended_names_desc) |->
                                         recommended_names_desc[i][1]], <<"\n">>)),
               printed |-> (IF median_score.num = 0 THEN <<NotFoundNotice(name)>>
                            ELSE <<>>) \o <<DidYouMeanNotice(name)>>]

\* f"{key}: {value}" for every item, joined by newlines (line 106)
Dump(ship_dict) ==
    Join([i \in 1..Len(ship_dict) |->
             ship_dict[i][1] \o <<":"," ">> \o Format(ship_dict[i][2])], <<"\n">>)

\* line 103
FoundShips(ships, name) ==
    SelectSeq(ships, LAMBDA ship : Lower(name) = Lower(Get(ship, SHIPNAME).s))

\* FirstDump as it would be if the loop kept the last record it built a dump
\* for instead of returning the first
FirstDumpLast(found_ships_list) ==
    IF Len(found_ships_list) > 0
    THEN Returned(Dump(found_ships_list[Len(found_ships_list)]))
    ELSE ReturnedNone

\* lines 105-106: the loop returns in its first iteration; with nothing to
\* iterate over the function ends without a return statement
FirstDump(found_ships_list) ==
    IF Len(found_ships_list) > 0 THEN Returned(Dump(found_ships_list[1]))
    ELSE ReturnedNone

\* lines 90-123: what search_ship returns or raises and what it prints
SearchOutcome(m, ships, name) ==
    LET scores == BuildScores(m, ships, name, <<>>)
    IN  IF \E i \in 1..Len(scores) : scores[i][2] = 100
        THEN [ret |-> FirstDump(FoundShips(ships, name)), printed |-> <<>>]
        ELSE Recommend(scores, name)

\* search_ship as it would be if it took the records off the list while it
\* scored them
search_ship_consuming(m, ships, commands) ==
    LET outcome == SearchOutcome(m, ships, Join(Tail(commands), <<" ">>))
    IN  [ret |-> outcome.ret, printed |-> outcome.printed, ships |-> <<>>]

\* search_ship: the value returned or raised, the lines printed, and the
\* list of records as the call leaves it
search_ship(m, ships, commands) ==
    LET outcome == SearchOutcome(m, ships, Join(Tail(commands), <<" ">>))
    IN  [ret |-> outcome.ret, printed |-> outcome.printed, ships |-> ships]

(* ---------------------------- top_countries ---------------------------- *)

DigitChars == <<"0","1","2","3","4","5","6","7","8","9">>

IsDigit(c) == \E d \in 1..10 : DigitChars[d] = c

DigitVal(c) == (CHOOSE d \in 1..10 : DigitChars[d] = c) - 1

RECURSIVE IntOfDigits(_)
IntOfDigits(ds) ==
    IF Len(ds) = 0 THEN 0
    ELSE IntOfDigits(SubSeq(ds, 1, Len(ds) - 1)) * 10 + DigitVal(ds[Len(ds)])

\* int(token) for a token of input().split(): an optional sign and at least
\* one digit; anything else raises ValueError (ok = FALSE)
ParseInt(tok) ==
    LET signed == Len(tok) > 0 /\ tok[1] \in {"+", "-"}
        ds     == IF signed THEN Tail(tok) ELSE tok
        ok     == Len(ds) > 0 /\ \A i \in 1..Len(ds) : IsDigit(ds[i])
    IN  [ok  |-> ok,
         val |-> IF ~ok THEN 0
                 ELSE IF signed /\ tok[1] = "-" THEN 0 - IntOfDigits(ds)
                 ELSE IntOfDigits(ds)]

\* countries_list.count(country)
Count(countries_list, country) ==
    Cardinality({i \in 1..Len(countries_list) : countries_list[i] = country})

RECURSIVE CountriesDict(_, _, _)
\* the loop of lines 50-51 over countries_list from index i on
CountriesDict(countries_list, i, countries_dict) ==
    IF i > Len(countries_list) THEN countries_dict
    ELSE CountriesDict(countries_list, i + 1,
                       DictSet(countries_dict, countries_list[i],
                               Count(countries_list, countries_list[i])))

\* top_countries: the value returned or raised, the lines printed, and the
\* list of records as the call leaves it
top_countries(ships, commands) ==
    LET parsed == ParseInt(commands[2])
        num_countries == parsed.val
        countries_list == [i \in 1..Len(ships) |-> Get(ships[i], COUNTRY).s]
        top_n_countries ==
            SliceTo(SortDesc(CountriesDict(countries_list, 1, <<>>)), num_countries)
    IN  [ret |-> IF Len(commands) # 2 THEN Raised("ValueError")
                 ELSE IF ~parsed.ok THEN Raised("ValueError")
                 ELSE IF num_countries \in {0, -1} THEN Raised("ValueError")
                 ELSE Returned(Join([i \in 1..Len(top_n_countries) |->
                                        top_n_countries[i][1] \o <<":"," ">>
                                            \o Digits(top_n_countries[i][2])],
                                    <<"\n">>)),
         printed |-> <<>>,
         ships |-> ships]

(* -------------------------------- main --------------------------------- *)

SearchCmd == <<"s","e","a","r","c","h","_","s","h","i","p">>
TopCmd    == <<"t","o","p","_","c","o","u","n","t","r","i","e","s">>

\* the keys of command_dict (lines 164-170)
CommandDict ==
    {<<"h","e","l","p">>,
     <<"s","h","o","w","_","c","o","u","n","t","r","i","e","s">>,
     TopCmd,
     <<"s","h","i","p","s","_","b","y","_","t","y","p","e","s">>,
     SearchCmd,
     <<"s","p","e","e","d","_","h","i","s","t","o","g","r","a","m">>}

PositiveNumberMessage ==
    <<"P","l","e","a","s","e"," ","e","n","t","e","r"," ","a"," ","p","o","s","i","t","i","v","e"," ","n","u","m","b","e","r"," ","m","o","r","e"," ","t","h","a","n"," ","0"," ","f","o","r"," ","n","u","m","b","_","c","o","u","n","t","r","i","e","s",".">>

IndexErrorMessage == <<"l","i","s","t"," ","i","n","d","e","x"," ","o","u","t"," ","o","f"," ","r","a","n","g","e">>

UnknownCommandMessage(command) == <<"U","n","k","n","o","w","n"," ","c","o","m","m","a","n","d"," ">> \o command

\* what the try statement of lines 185-194 prints for the handler's outcome
MainPrints(r) ==
    IF r.kind = "str" THEN <<r.text, <<>>>>
    ELSE IF r.kind = "None" THEN <<<<"N","o","n","e">>, <<>>>>
    ELSE IF r.kind = "ValueError" THEN <<PositiveNumberMessage>>
    ELSE <<IndexErrorMessage>>

(* ------------------------------ the store ------------------------------ *)

Ship(name, country, speed) ==
    <<<<SHIPNAME, StrVal(name)>>, <<COUNTRY, StrVal(country)>>,
      <<SPEED, NumVal(speed)>>>>

\* a record whose fields come in another order
ShipB(name, country, speed) ==
    <<<<COUNTRY, StrVal(country)>>, <<SPEED, NumVal(speed)>>,
      <<SHIPNAME, StrVal(name)>>>>

Catalog ==
    <<Ship(<<"C">>, <<"X">>, 0),     ShipB(<<"A">>, <<"Y">>, 12),
      Ship(<<"C","C">>, <<"X">>, 3),    Ship(<<"B">>, <<"Z">>, 4),
      Ship(<<"D">>, <<"X">>, 5),     Ship(<<"A","B","C">>, <<"Y">>, 6),
      Ship(<<"D","D">>, <<"Z">>, 7),    Ship(<<"A","B","D">>, <<"Y">>, 8),
      Ship(<<"C","D">>, <<"X">>, 9),    ShipB(<<"B","A">>, <<"Z">>, 10),
      Ship(<<"D","C">>, <<"X">>, 11),   Ship(<<"A","B","C","D">>, <<"Y">>, 1),
      Ship(<<"C","C","C">>, <<"W">>, 2),   Ship(<<"A","B">>, <<"X">>, 13),
      ShipB(<<"A","b">>, <<"Y">>, 14),  Ship(<<"A","B">>, <<"Z">>, 15)>>

\* the largest number of records of a store cut from the catalog
MaxStore == 13

DisneyDream == <<"D","I","S","N","E","Y"," ","D","R","E","A","M">>

\* a name of 101 characters and a query of 100: the shortest pair of different
\* strings whose ratio rounds to 100
LongName  == Repeat("a", 101)
LongQuery == Repeat("a", 100)

\* the lists load_data() can have produced: the empty list, runs of the
\* catalog, and two one-record lists
Stores ==
    {<<>>, <<Ship(DisneyDream, <<"B">>, 22)>>, <<Ship(LongName, <<"X">>, 1)>>}
    \cup {SubSeq(Catalog, i, j) : i \in 1..Len(Catalog), j \in 1..Len(Catalog)}

Matchers == {"Levenshtein", "difflib"}

\* the tokens typed after search_ship; the 100-character query is typed only
\* when the store holds the 101-character name
SearchInputs(store) ==
    {<<>>, <<<<"a","B">>>>, <<<<"d">>, <<"c">>>>, <<<<"c","a","c">>>>,
     <<<<"d","i","s","n","e","y">>>>,
     <<<<"D","I","S","N","E","Y">>, <<"d","r","e","a","m">>>>}
    \cup (IF \E i \in 1..Len(store) : Get(store[i], SHIPNAME).s = LongName
          THEN {<<LongQuery>>} ELSE {})

\* the tokens typed after top_countries
TopInputs ==
    {<<<<"2">>>>, <<<<"0">>>>, <<<<"-","1">>>>, <<<<"-","2">>>>, <<<<"+","3">>>>,
     <<<<"x">>>>, <<>>}

UnknownInputs == {<<<<"x">>>>}

(* ------------------------------ the state ------------------------------ *)

VARIABLES
    ships,          \* ships_list_dict, the Record Store
    matcher,        \* the SequenceMatcher fuzzywuzzy imported
    commands,       \* the tokens of the last input line
    ret,            \* what the last handler returned or raised
    printed,        \* the lines the last handler printed
    console,        \* all lines printed while the last input line was served
    ships_scores,   \* a ScoreMap handed to the median helper or the else branch
    median_score,   \* what get_median_ships_scores made of ships_scores
    recommended     \* what the else branch made of ships_scores

vars == <<ships, matcher, commands, ret, printed, console,
          ships_scores, median_score, recommended>>

Idle == [kind |-> "idle", text |-> <<>>]

NoNumber == [kind |-> "idle", num |-> 0, den |-> 1]

NoOutcome == [ret |-> Idle, printed |-> <<>>]

\* line 172
WelcomeMessage ==
    <<"\n","W","e","l","c","o","m","e"," ","t","o"," ","t","h","e"," ","S",
      "h","i","p","s"," ","C","L","I","!"," ","E","n","t","e","r"," ","'","h",
      "e","l","p","'"," ","t","o"," ","v","i","e","w"," ","a","v","a","i","l",
      "a","b","l","e"," ","c","o","m","m","a","n","d","s",".">>

(* --------------------------- the command loop -------------------------- *)

Init ==
    /\ ships \in {s \in Stores : Len(s) <= MaxStore}
    /\ matcher \in Matchers
    /\ commands = <<>>
    /\ ret = Idle
    /\ printed = <<>>
    /\ console = <<WelcomeMessage>>
    /\ ships_scores = <<>>
    /\ median_score = NoNumber
    /\ recommended = NoOutcome

\* lines 185-194: the handler runs, main prints its result or its error
Serve(input, h) ==
    /\ commands' = input
    /\ ret' = h.ret
    /\ printed' = h.printed
    /\ console' = h.printed \o MainPrints(h.ret)
    /\ ships' = h.ships
    /\ UNCHANGED <<matcher, ships_scores, median_score, recommended>>

SearchShip(args) ==
    LET input == <<SearchCmd>> \o args
    IN  Serve(input, search_ship(matcher, ships, input))

TopCountries(args) ==
    LET input == <<TopCmd>> \o args
    IN  Serve(input, top_countries(ships, input))

\* lines 180-183: a first token that is no key of command_dict
UnknownCommand(input) ==
    /\ Len(input) # 0
    /\ input[1] \notin CommandDict
    /\ commands' = input
    /\ ret' = Idle
    /\ printed' = <<>>
    /\ console' = <<UnknownCommandMessage(input[1])>>
    /\ UNCHANGED <<ships, matcher, ships_scores, median_score, recommended>>

Next ==
    \/ \E args \in SearchInputs(ships) : SearchShip(args)
    \/ \E args \in TopInputs : TopCountries(args)
    \/ \E input \in UnknownInputs : UnknownCommand(input)

Spec == Init /\ [][Next]_vars

(* ------------- the median helper and the else branch alone ------------- *)

\* the largest number of entries of a ScoreMap drawn directly
MaxEntries == 4

ScoreVals == {0, 1, 2, 3, 4, 5, 50, 99}

EntryNames == <<<<"K">>, <<"L">>, <<"M">>, <<"N">>, <<"O">>, <<"P">>>>

\* ships_scores is any ScoreMap of up to MaxEntries entries without a score
\* of 100
InitScores ==
    /\ \E n \in 0..MaxEntries : \E f \in [1..n -> ScoreVals] :
           ships_scores = [i \in 1..n |-> <<EntryNames[i], f[i]>>]
    /\ median_score = NoNumber
    /\ recommended = NoOutcome
    /\ ships = <<>>
    /\ matcher = "difflib"
    /\ commands = <<>>
    /\ ret = Idle
    /\ printed = <<>>
    /\ console = <<>>

\* a call of get_median_ships_scores(ships_scores)
CallMedian ==
    /\ median_score = NoNumber
    /\ median_score' = get_median_ships_scores(ships_scores)
    /\ UNCHANGED <<ships, matcher, commands, ret, printed, console,
                   ships_scores, recommended>>

\* the else branch of search_ship run on ships_scores
CallRecommend(name) ==
    /\ recommended = NoOutcome
    /\ recommended' = Recommend(ships_scores, name)
    /\ UNCHANGED <<ships, matcher, commands, ret, printed, console,
                   ships_scores, median_score>>

NextScores ==
    \/ CallMedian
    \/ \E name \in {<<"q">>} : CallRecommend(name)

SpecScores == InitScores /\ [][NextScores]_vars


(* ============================= properties ============================== *)

\* the lines of a text: the pieces between its newline characters, none for
\* the empty text
Lines(text) ==
    LET breaks == {i \in 1..Len(text) : text[i] = "\n"}
        nth(k) == CHOOSE p \in breaks : Cardinality({q \in breaks : q < p}) = k - 1
        count  == IF Len(text) = 0 THEN 0 ELSE Cardinality(breaks) + 1
    IN  [k \in 1..count |->
            SubSeq(text,
                   IF k = 1 THEN 1 ELSE nth(k - 1) + 1,
                   IF k = count THEN Len(text) ELSE nth(k) - 1)]

IsPrefix(p, s) == Len(s) >= Len(p) /\ SubSeq(s, 1, Len(p)) = p

\* the last input line was served by search_ship
Searched == ret.kind # "idle" /\ commands[1] = SearchCmd

\* the last input line was served by top_countries
TopCalled == ret.kind # "idle" /\ commands[1] = TopCmd

Query == Join(Tail(commands), <<" ">>)

ShipName(i) == Get(ships[i], SHIPNAME).s

NameSet == {ShipName(i) : i \in 1..Len(ships)}

Matches(i) == Lower(ShipName(i)) = Lower(Query)

HasExactMatch == \E i \in 1..Len(ships) : Matches(i)

FirstMatch ==
    ships[CHOOSE i \in 1..Len(ships) : Matches(i) /\ \A j \in 1..(i - 1) : ~Matches(j)]

\* the score of every record's name against the query, by store position
StoreScores ==
    SubSeq([i \in 1..Len(ships) |->
               ratio(matcher, Lower(Query), Lower(ShipName(i)))], 1, Len(ships))

\* the positions at which a name occurs for the first time: one per entry of
\* the ScoreMap, in its insertion order
FirstPositions == {i \in 1..Len(ships) : \A j \in 1..(i - 1) : ShipName(j) # ShipName(i)}

\* the k-th smallest of the values sc[i], i in F
OrderStat(sc, F, k) ==
    CHOOSE v \in {sc[i] : i \in F} :
        /\ Cardinality({i \in F : sc[i] < v}) < k
        /\ k <= Cardinality({i \in F : sc[i] <= v})

\* twice the median of the values sc[i], i in F, F not empty
TwiceMedian(sc, F) ==
    LET c == Cardinality(F)
    IN  IF c % 2 = 1 THEN 2 * OrderStat(sc, F, (c + 1) \div 2)
        ELSE OrderStat(sc, F, c \div 2) + OrderStat(sc, F, c \div 2 + 1)

\* the positions of the names the text returns, one per line
ReturnedPositions(text) ==
    {i \in FirstPositions : \E k \in 1..Len(Lines(text)) : Lines(text)[k] = ShipName(i)}

Min(x, y) == IF x <= y THEN x ELSE y

(* ------------------------------- C1 ----------------------------------- *)

\* C1: when the query equals, case-insensitively, the SHIPNAME of some record,
\* search_ship returns the "field: value" lines of the first such record in
\* store order, in the record's field order, and nothing else; exactly one of
\* the lines is a SHIPNAME line
C1_ExactMatchReturnsFirstDump ==
    (Searched /\ HasExactMatch) =>
        /\ ret.kind = "str"
        /\ LET lines == Lines(ret.text)
           IN  /\ Len(lines) = Len(FirstMatch)
               /\ \A k \in 1..Len(lines) :
                      lines[k] = FirstMatch[k][1] \o <<":"," ">> \o Format(FirstMatch[k][2])
               /\ Cardinality({k \in 1..Len(lines) :
                                  IsPrefix(SHIPNAME \o <<":"," ">>, lines[k])}) = 1

\* two different records carry the queried name and a dump came back
C1_Witness ==
    /\ Searched
    /\ \E i, j \in 1..Len(ships) :
           i < j /\ Matches(i) /\ Matches(j) /\ ships[i] # ships[j]
    /\ ret.kind = "str"
    /\ Len(Lines(ret.text)) = 3

(* ------------------------------- C2 ----------------------------------- *)

\* C2: when no SHIPNAME equals the query case-insensitively, search_ship
\* returns a text of at most 5 lines, each the name of a record, no name twice,
\* by descending score and, among equal scores, in ScoreMap insertion order
C2_SuggestionsRanked ==
    (Searched /\ ~HasExactMatch) =>
        /\ ret.kind = "str"
        /\ LET lines == Lines(ret.text)
               sc    == StoreScores
               pos(k) == CHOOSE i \in FirstPositions : ShipName(i) = lines[k]
           IN  /\ Len(lines) <= 5
               /\ \A k \in 1..Len(lines) : lines[k] \in NameSet
               /\ \A k1, k2 \in 1..Len(lines) :
                      k1 < k2 =>
                          /\ lines[k1] # lines[k2]
                          /\ \/ sc[pos(k1)] > sc[pos(k2)]
                             \/ sc[pos(k1)] = sc[pos(k2)] /\ pos(k1) < pos(k2)

(* ------------------------------- C3 ----------------------------------- *)

\* C3: on the else branch (no score of 100) the names returned all score
\* strictly more than twice the median of all ScoreMap entries, and they are
\* the 5 best of the names that do (all of them when there are fewer)
C3_ThresholdAndTopFive ==
    Searched =>
        LET sc == StoreScores
            F  == FirstPositions
        IN  (\A i \in F : sc[i] # 100) =>
                LET passing  == {i \in F : sc[i] > TwiceMedian(sc, F)}
                    returned == IF ret.kind = "str" THEN ReturnedPositions(ret.text)
                                ELSE {}
                IN  /\ ret.kind = "str" =>
                           Len(Lines(ret.text)) = Cardinality(returned)
                    /\ returned \subseteq passing
                    /\ Cardinality(returned) = Min(5, Cardinality(passing))
                    /\ \A r \in returned : \A p \in passing \ returned :
                           sc[r] >= sc[p]

\* more than 5 names pass the threshold and 5 are returned
C3_Witness ==
    /\ Searched
    /\ ret.kind = "str"
    /\ Len(Lines(ret.text)) = 5
    /\ LET sc == StoreScores
           F  == FirstPositions
       IN  /\ \A i \in F : sc[i] # 100
           /\ Cardinality({i \in F : sc[i] > TwiceMedian(sc, F)}) > 5

(* ------------------------------- C4 ----------------------------------- *)

\* C4: search_ship on an empty store ends in an explicit NoData condition,
\* the median helper raises no index or arithmetic error
C4_EmptyStoreNoData ==
    (Searched /\ ships = <<>>) => ret.kind = "NoData"

(* ------------------------------- C5 ----------------------------------- *)

\* C5: with the single record DISNEY DREAM in the store, the query "disney"
\* returns DISNEY DREAM as a suggestion
C5_DisneySuggested ==
    (Searched /\ Len(ships) = 1 /\ NameSet = {DisneyDream} /\ Query = <<"d","i","s","n","e","y">>) =>
        /\ ret.kind = "str"
        /\ \E k \in 1..Len(Lines(ret.text)) : Lines(ret.text)[k] = DisneyDream

(* ------------------------------- C6 ----------------------------------- *)

\* C6: for a non-empty ScoreMap get_median_ships_scores returns the median of
\* its values: the middle one of the values in ascending order for an odd
\* count, the mean of the two central ones for an even count, in whatever
\* order the values come; 1,2,3,4 give 2.5 and 5 alone gives 5
C6_MedianOfSortedValues ==
    (median_score # NoNumber /\ Len(ships_scores) > 0) =>
        LET vals == Values(ships_scores)
            F    == 1..Len(ships_scores)
        IN  /\ median_score.kind = "number"
            /\ median_score.num * 2 = TwiceMedian(vals, F) * median_score.den
            /\ Len(vals) % 2 = 1 =>
                   /\ median_score.den = 1
                   /\ median_score.num = OrderStat(vals, F, (Len(vals) + 1) \div 2)
            /\ (Len(vals) = 4 /\ {vals[i] : i \in F} = {1, 2, 3, 4}) =>
                   median_score.num = 5 /\ median_score.den = 2
            /\ vals = <<5>> => median_score.num = 5 /\ median_score.den = 1

\* the median of the unsorted values 4, 1, 3, 2 came out as 5/2
C6_Witness ==
    /\ Len(ships_scores) = 4
    /\ Values(ships_scores) = <<4, 1, 3, 2>>
    /\ median_score = Number(5, 2)

(* ------------------------------- C7 ----------------------------------- *)

\* C7: a call that takes the else branch prints the "did you mean" notice
\* exactly once, and the "ship not found" notice, ahead of it, exactly when
\* the median is 0; a call that takes the exact-match branch prints neither;
\* no notice is a line of the returned text
C7_Notices ==
    Searched =>
        LET sc == StoreScores
            F  == FirstPositions
            didYouMean == {k \in 1..Len(printed) : printed[k] = DidYouMeanNotice(Query)}
            notFound   == {k \in 1..Len(printed) : printed[k] = NotFoundNotice(Query)}
        IN  /\ IF \E i \in F : sc[i] = 100
               THEN didYouMean = {} /\ notFound = {}
               ELSE /\ Cardinality(didYouMean) = 1
                    /\ notFound # {} <=> (F # {} /\ TwiceMedian(sc, F) = 0)
                    /\ \A k1 \in notFound : \A k2 \in didYouMean : k1 < k2
            /\ ret.kind = "str" =>
                   \A k \in 1..Len(Lines(ret.text)) :
                       /\ Lines(ret.text)[k] # DidYouMeanNotice(Query)
                       /\ Lines(ret.text)[k] # NotFoundNotice(Query)

(* ------------------------------- C8 ----------------------------------- *)

\* C8: no step of the command loop, whichever branch search_ship takes and
\* also when it raises, changes the list of records or a field of a record
C8_StoreNeverMutated == [][ships' = ships]_vars

\* a search over a non-empty store has returned suggestions
C8_Witness ==
    /\ Searched
    /\ Len(ships) > 1
    /\ ret.kind = "str"
    /\ Len(printed) > 0
    /\ Len(Lines(ret.text)) > 0

(* ------------------------------- C9 ----------------------------------- *)

\* C9: top_countries raises ValueError, printed by the command loop as the
\* positive-number message, for 0 and for every negative num_countries, and
\* returns a listing only for num_countries of at least 1
C9_NonPositiveRejected ==
    (TopCalled /\ Len(commands) = 2 /\ ParseInt(commands[2]).ok) =>
        LET num_countries == ParseInt(commands[2]).val
        IN  /\ num_countries <= 0 =>
                   ret.kind = "ValueError" /\ console = <<PositiveNumberMessage>>
            /\ ret.kind = "str" => num_countries >= 1

(* ------------------------------- C10 ---------------------------------- *)

====
